---- MODULE Spec2Model ----
(***************************************************************************)
(* A model of the portfolio web application: the temporal-similarity       *)
(* engine of similarity_program.py, and the two handlers of main.py that   *)
(* have behaviour of their own (the upload handler process_file and the    *)
(* contact handler).                                                       *)
(*                                                                         *)
(* Numbers.  The engine works on floating-point sines and cosines.  The    *)
(* model keeps the arithmetic exact: times of day are quarter points of     *)
(* the day, whose sine and cosine are -1, 0 or 1, held as                  *)
(* fixed-point integers in units of 1/Unit so that the mean of up to       *)
(* MaxRows of them is an integer.  A cosine similarity c is held as the    *)
(* exact rational c*|c| (numerator and denominator), which has the sign,   *)
(* the zero and the order of c.                                            *)
(***************************************************************************)
EXTENDS Integers, Sequences, FiniteSets, TLC

\* Longest input file, in data rows.
MaxRows == 3

\* ------------------------------------------------------------------ input
\* A missing cell (pandas reads an empty field as NaN / NaT).
NA == <<>>

UserIds == {1, 2, 3}

\* The time-of-day cells: HH:MM:SS as <<h, m, s>>.  00:00:00, 12:00:00 and
\* 18:00:00 are valid; 25:61:00 is out of range.
TimeCells == {<<0, 0, 0>>, <<18, 0, 0>>, <<12, 0, 0>>, <<25, 61, 0>>}

\* The user cells of the input files: every row names its user.
UserCell == {<<u>> : u \in UserIds}
TimeCell == {NA} \cup TimeCells

DataRow == [user : UserCell, time : TimeCell]

RECURSIVE SeqsUpTo(_, _)
SeqsUpTo(S, n) ==
    IF n = 0 THEN {<<>>}
    ELSE LET shorter == SeqsUpTo(S, n - 1)
         IN  shorter \cup {Append(q, x) : q \in {p \in shorter : Len(p) = n - 1}, x \in S}

\* What is at a path.  kind: "absent" (no such file), "garbage" (pandas cannot
\* parse it), "csv".  cols: the number of columns of a csv.  has_header: whether
\* its first line is a header line, rows: its data rows, in file order.
AbsentFile == [kind |-> "absent", cols |-> 2, has_header |-> FALSE, rows |-> <<>>]
GarbageFile == [kind |-> "garbage", cols |-> 2, has_header |-> FALSE, rows |-> <<>>]

CsvFiles ==
    {[kind |-> "csv", cols |-> c, has_header |-> h, rows |-> r] :
        c \in {1, 2}, h \in BOOLEAN, r \in SeqsUpTo(DataRow, MaxRows)}

\* A one-column csv has no time column: every time cell is missing.
InputFiles ==
    {AbsentFile, GarbageFile}
    \cup {f \in CsvFiles : f.cols = 1 => \A i \in 1..Len(f.rows) : f.rows[i].time = NA}

\* The number of lines of the file as pandas sees it.
PhysicalLines(f) == (IF f.has_header THEN 1 ELSE 0) + Len(f.rows)

\* ------------------------------------------------------- similarity engine
RECURSIVE Fact(_)
Fact(n) == IF n <= 1 THEN 1 ELSE n * Fact(n - 1)

\* The fixed-point unit: sines and cosines are held in units of 1/Unit.
Unit == Fact(MaxRows)

Raise(stage, error) == [ok |-> FALSE, stage |-> stage, error |-> error]

\* pd.read_csv(file_path) succeeds.
ReadsAsCsv(f) == f.kind = "csv" /\ PhysicalLines(f) > 0

\* The exception pd.read_csv raises on a file it cannot read.
ReadError(f) ==
    IF f.kind = "absent" THEN "FileNotFoundError"
    ELSE IF f.kind = "garbage" THEN "ParserError"
    ELSE "EmptyDataError"

\* A check that only looks whether the file exists, without reading it.
check_file_exists_only(f) == f.kind # "absent"

\* Lines 15-24: True when pd.read_csv reads the file, False on any exception.
check_csv_file_with_pandas(f) == ReadsAsCsv(f)

\* pd.read_csv(file_path, header=0, names=["Users", "Times"]): the first line of
\* the file is taken as the header line and replaced by the two names.
read_csv_header0(f) == IF f.has_header THEN f.rows ELSE Tail(f.rows)

\* A cell matches format "%H:%M:%S".
MatchesFormat(t) == t[1] \in 0..23 /\ t[2] \in 0..59 /\ t[3] \in 0..59

Seconds_from_midnight(t) == t[1] * 3600 + t[2] * 60 + t[3]

\* sin and cos of 2*pi*seconds/86400, exact at the quarter points of the day.
Time_sin(seconds) == Unit * <<0, 1, 0, -1>>[((seconds * 4) \div 86400) + 1]
Time_cos(seconds) == Unit * <<1, 0, -1, 0>>[((seconds * 4) \div 86400) + 1]

\* One row of the data frame; a missing time is NaT and its features are NaN.
EncodeRow(row) ==
    IF row.time = NA
    THEN [Users |-> row.user, Seconds |-> NA, Time_sin |-> NA, Time_cos |-> NA]
    ELSE LET seconds == Seconds_from_midnight(row.time)
         IN  [Users |-> row.user, Seconds |-> <<seconds>>,
              Time_sin |-> <<Time_sin(seconds)>>, Time_cos |-> <<Time_cos(seconds)>>]

process_csv(f) ==
    IF ~ReadsAsCsv(f) THEN Raise("process_csv", ReadError(f))
    ELSE LET data == read_csv_header0(f)
         IN  IF \E i \in 1..Len(data) :
                    data[i].time # NA /\ ~MatchesFormat(data[i].time)
             THEN Raise("process_csv", "ValueError")
             ELSE [ok |-> TRUE, df |-> [i \in 1..Len(data) |-> EncodeRow(data[i])]]

RECURSIVE SumSeq(_)
SumSeq(q) == IF q = <<>> THEN 0 ELSE Head(q) + SumSeq(Tail(q))

\* The cells of a column that are not NaN, as a sequence of numbers.
RECURSIVE Present(_)
Present(col) ==
    IF col = <<>> THEN <<>>
    ELSE IF Head(col) = NA THEN Present(Tail(col))
    ELSE <<Head(col)[1]>> \o Present(Tail(col))

\* The sum of the cells in place of their mean.
SumInPlaceOfMean(col) ==
    LET xs == Present(col)
    IN  IF xs = <<>> THEN NA ELSE <<SumSeq(xs)>>

\* Series.mean(): the mean of the cells that are not NaN, NaN when there is none.
Mean(col) ==
    LET xs == Present(col)
    IN  IF xs = <<>> THEN NA ELSE <<SumSeq(xs) \div Len(xs)>>

RECURSIVE Ascending(_)
Ascending(S) ==
    IF S = {} THEN <<>>
    ELSE LET least == CHOOSE x \in S : \A y \in S : x <= y
         IN  <<least>> \o Ascending(S \ {least})

RECURSIVE RowsOf(_, _)
RowsOf(frame, u) ==
    IF frame = <<>> THEN <<>>
    ELSE IF Head(frame).Users = <<u>> THEN <<Head(frame)>> \o RowsOf(Tail(frame), u)
    ELSE RowsOf(Tail(frame), u)

\* df.groupby("Users")[["Time_sin", "Time_cos"]].mean().reset_index(): one row per
\* user, in ascending order of the key; rows whose key is NaN are left out.
GroupMeans(frame) ==
    LET keys == Ascending({frame[i].Users[1] : i \in {j \in 1..Len(frame) : frame[j].Users # NA}})
    IN  [k \in 1..Len(keys) |->
            LET rows == RowsOf(frame, keys[k])
            IN  [Users |-> keys[k],
                 Time_sin |-> Mean([i \in 1..Len(rows) |-> rows[i].Time_sin]),
                 Time_cos |-> Mean([i \in 1..Len(rows) |-> rows[i].Time_cos])]]

Abs(x) == IF x < 0 THEN -x ELSE x

RECURSIVE Gcd(_, _)
Gcd(a, b) == IF b = 0 THEN a ELSE Gcd(b, a % b)

Zero == [num |-> 0, den |-> 1]

\* x < y for two rationals with positive denominators.
Less(x, y) == x.num * y.den < y.num * x.den
Same(x, y) == x.num * y.den = y.num * x.den

\* The cosine similarity c of two vectors, as c*|c|.  sklearn normalises each row
\* to length 1 first and leaves a row of length 0 as it is, so that its
\* similarity to every row, itself included, is 0.
Cosine(a, b) ==
    LET ga == Gcd(Abs(a[1]), Abs(a[2]))
        gb == Gcd(Abs(b[1]), Abs(b[2]))
    IN  IF ga = 0 \/ gb = 0 THEN Zero
        ELSE LET x == <<a[1] \div ga, a[2] \div ga>>
                 y == <<b[1] \div gb, b[2] \div gb>>
                 dot == x[1] * y[1] + x[2] * y[2]
                 den == (x[1] * x[1] + x[2] * x[2]) * (y[1] * y[1] + y[2] * y[2])
                 g == Gcd(dot * dot, den)
             IN  [num |-> ((IF dot < 0 THEN -1 ELSE 1) * dot * dot) \div g,
                  den |-> den \div g]

\* sklearn.metrics.pairwise.cosine_similarity(X): refuses an empty X and an X
\* with a NaN in it.
cosine_similarity(X) ==
    IF Len(X) = 0 \/ \E i \in 1..Len(X) : X[i].Time_sin = NA \/ X[i].Time_cos = NA
    THEN Raise("obtain_cosine_similarity_array", "ValueError")
    ELSE [ok |-> TRUE,
          array |-> [i \in 1..Len(X) |-> [j \in 1..Len(X) |->
                        Cosine(<<X[i].Time_sin[1], X[i].Time_cos[1]>>,
                               <<X[j].Time_sin[1], X[j].Time_cos[1]>>)]]]

obtain_cosine_similarity_array(frame) ==
    LET df_time_vectors == GroupMeans(frame)
        sim == cosine_similarity(df_time_vectors)
    IN  IF ~sim.ok THEN sim
        ELSE [ok |-> TRUE, array |-> sim.array, vectors |-> df_time_vectors]

\* np.triu(np.ones(shape), k=1): 1 strictly above the diagonal, 0 elsewhere.
Triu1(i, j) == IF i < j THEN 1 ELSE 0

\* user_similarity_df.values * mask
Masked(array) ==
    [i \in 1..Len(array) |-> [j \in 1..Len(array) |->
        [num |-> array[i][j].num * Triu1(i, j), den |-> array[i][j].den]]]

\* np.argmax over the flattened array: the first index of a largest cell, in
\* row-major order; np.unravel_index gives its row and column.
ArgMax(m) ==
    LET n == Len(m)
        cell(k) == m[(k \div n) + 1][(k % n) + 1]
        best == CHOOSE k \in 0..(n * n - 1) :
                    /\ \A l \in 0..(n * n - 1) : ~Less(cell(k), cell(l))
                    /\ \A l \in 0..(k - 1) : Less(cell(l), cell(k))
    IN  <<(best \div n) + 1, (best % n) + 1>>

highest_similarity_pair(array, df_time_vectors) ==
    LET masked_similarity == Masked(array)
        max_sim_index == ArgMax(masked_similarity)
    IN  [kind |-> "triple",
         user1 |-> df_time_vectors[max_sim_index[1]].Users,
         user2 |-> df_time_vectors[max_sim_index[2]].Users,
         max_similarity_value |-> masked_similarity[max_sim_index[1]][max_sim_index[2]]]

\* What a call of compute_highest_similarity_from_csv ends in.
ReturnsNone == [kind |-> "none"]
Raised(r) == [kind |-> "raise", stage |-> r.stage, error |-> r.error]

\* Lines 182-185: the pipeline that follows a successful check.
RunPipeline(f) ==
    LET p == process_csv(f)
    IN  IF ~p.ok THEN Raised(p)
        ELSE LET s == obtain_cosine_similarity_array(p.df)
             IN  IF ~s.ok THEN Raised(s)
                 ELSE highest_similarity_pair(s.array, s.vectors)

compute_highest_similarity_from_csv(f) ==
    IF check_csv_file_with_pandas(f) THEN RunPipeline(f) ELSE ReturnsNone

VARIABLES
    csv_path,     \* the file the engine is run on
    pc,           \* the engine's position
    ran,          \* the steps of the engine that have run
    printed,      \* whether "Innapropriate file" was printed
    df,           \* process_csv's data frame
    vectors,      \* df_time_vectors
    matrix,       \* user_similarity_array
    result        \* what compute_highest_similarity_from_csv did

\* The upload handler process_file, serving concurrent requests.
VARIABLES
    fs,           \* the upload folder: what is at each path, and who saved it
    req,          \* each upload request
    upc,          \* each upload request's position in process_file
    saved,        \* whether the request has saved its upload
    reads,        \* the file contents the request's engine invocation has read
    outcome,      \* what the request's engine invocation ended in
    deleted,      \* what the request's os.remove has removed
    flashes       \* the messages the request has flashed

\* The contact handler, serving concurrent requests.
VARIABLES
    creq,          \* each contact request
    cpc,           \* each contact request's position in contact
    mail_password, \* app.config["MAIL_PASSWORD"]
    cmail,         \* what became of the request's mail
    cresp          \* the response to the request

engineVars == <<csv_path, pc, ran, printed, df, vectors, matrix, result>>
uploadVars == <<fs, req, upc, saved, reads, outcome, deleted, flashes>>
contactVars == <<creq, cpc, mail_password, cmail, cresp>>
vars == <<engineVars, uploadVars, contactVars>>

Pending == [kind |-> "pending"]

\* The engine at rest, in the specifications of the handlers.
EngineIdle ==
    /\ csv_path = AbsentFile
    /\ pc = "idle"
    /\ ran = {}
    /\ printed = FALSE
    /\ df = <<>>
    /\ vectors = <<>>
    /\ matrix = <<>>
    /\ result = Pending

EngineStart ==
    /\ csv_path \in InputFiles
    /\ pc = "check"
    /\ ran = {}
    /\ printed = FALSE
    /\ df = <<>>
    /\ vectors = <<>>
    /\ matrix = <<>>
    /\ result = Pending

\* Lines 180-181 and 186-187.
CheckCsv ==
    /\ pc = "check"
    /\ ran' = ran \cup {"check_csv_file_with_pandas"}
    /\ IF check_csv_file_with_pandas(csv_path)
       THEN pc' = "process_csv" /\ UNCHANGED <<printed, result>>
       ELSE pc' = "done" /\ printed' = TRUE /\ result' = ReturnsNone
    /\ UNCHANGED <<csv_path, df, vectors, matrix>>
    /\ UNCHANGED <<uploadVars, contactVars>>

\* Line 182.
ProcessCsv ==
    /\ pc = "process_csv"
    /\ ran' = ran \cup {"process_csv"}
    /\ LET r == process_csv(csv_path)
       IN  IF r.ok
           THEN pc' = "groupby" /\ df' = r.df /\ UNCHANGED result
           ELSE pc' = "done" /\ result' = Raised(r) /\ UNCHANGED df
    /\ UNCHANGED <<csv_path, printed, vectors, matrix>>
    /\ UNCHANGED <<uploadVars, contactVars>>

\* Line 183, first half: the aggregation of line 111.
Aggregate ==
    /\ pc = "groupby"
    /\ ran' = ran \cup {"groupby"}
    /\ vectors' = GroupMeans(df)
    /\ pc' = "cosine_similarity"
    /\ UNCHANGED <<csv_path, printed, df, matrix, result>>
    /\ UNCHANGED <<uploadVars, contactVars>>

\* Line 183, second half: the matrix of line 114.
SimilarityArray ==
    /\ pc = "cosine_similarity"
    /\ ran' = ran \cup {"cosine_similarity"}
    /\ LET r == cosine_similarity(vectors)
       IN  IF r.ok
           THEN pc' = "highest_similarity_pair" /\ matrix' = r.array /\ UNCHANGED result
           ELSE pc' = "done" /\ result' = Raised(r) /\ UNCHANGED matrix
    /\ UNCHANGED <<csv_path, printed, df, vectors>>
    /\ UNCHANGED <<uploadVars, contactVars>>

\* Lines 184-185.
SelectPair ==
    /\ pc = "highest_similarity_pair"
    /\ ran' = ran \cup {"highest_similarity_pair"}
    /\ result' = highest_similarity_pair(matrix, vectors)
    /\ pc' = "done"
    /\ UNCHANGED <<csv_path, printed, df, vectors, matrix>>
    /\ UNCHANGED <<uploadVars, contactVars>>

EngineNext ==
    \/ CheckCsv
    \/ ProcessCsv
    \/ Aggregate
    \/ SimilarityArray
    \/ SelectPair

\* ------------------------------------------------------ the upload handler
UploadRequests == {"r1", "r2"}
Nobody == "nobody"

\* Uploaded file names, as <<stem, extension>>; <<"", "">> is the empty name.
EmptyName == <<"", "">>
FileNames == {<<"a", ".csv">>, <<"b", ".csv">>, <<"a", ".txt">>, EmptyName}

\* file.filename.endswith('.csv')
EndsWithCsv(name) == name[2] = ".csv"

Csv(rows) == [kind |-> "csv", cols |-> 2, has_header |-> TRUE, rows |-> rows]
At(u, t) == [user |-> <<u>>, time |-> t]

\* The bodies uploaded: two files with different most-similar pairs, a file with
\* a malformed time, and a file pandas cannot read.
UploadBodies ==
    {Csv(<<At(1, <<0, 0, 0>>), At(2, <<0, 0, 0>>), At(3, <<18, 0, 0>>)>>),
     Csv(<<At(1, <<0, 0, 0>>), At(2, <<18, 0, 0>>), At(3, <<18, 0, 0>>)>>),
     Csv(<<At(1, <<0, 0, 0>>), At(2, <<25, 61, 0>>)>>),
     GarbageFile}

AnyBody == CHOOSE b \in UploadBodies : TRUE

UploadRequest ==
    {[method |-> "GET", has_file_part |-> FALSE, filename |-> EmptyName, body |-> AnyBody],
     [method |-> "POST", has_file_part |-> FALSE, filename |-> EmptyName, body |-> AnyBody]}
    \cup [method : {"POST"}, has_file_part : {TRUE}, filename : FileNames, body : UploadBodies]

NoEntry == [owner |-> Nobody, file |-> AbsentFile]

\* os.path.join(app.config['UPLOAD_FOLDER'], file.filename)
file_path(r) == req[r].filename

UploadIdle ==
    /\ fs = [n \in {} |-> NoEntry]
    /\ req = <<>>
    /\ upc = <<>>
    /\ saved = <<>>
    /\ reads = <<>>
    /\ outcome = <<>>
    /\ deleted = <<>>
    /\ flashes = <<>>

UploadStart ==
    /\ fs = [n \in {name \in FileNames : EndsWithCsv(name)} |-> NoEntry]
    /\ req \in [UploadRequests -> UploadRequest]
    /\ upc = [r \in UploadRequests |-> "request"]
    /\ saved = [r \in UploadRequests |-> FALSE]
    /\ reads = [r \in UploadRequests |-> {}]
    /\ outcome = [r \in UploadRequests |-> Pending]
    /\ deleted = [r \in UploadRequests |-> NoEntry]
    /\ flashes = [r \in UploadRequests |-> <<>>]

Flash(r, message) == flashes' = [flashes EXCEPT ![r] = Append(@, message)]

\* Why a request is turned away before anything is saved, "" when it is not.
Refusal(q) ==
    IF q.method # "POST" THEN "render job.html"
    ELSE IF ~q.has_file_part THEN "No file part in the request."
    ELSE IF q.filename = EmptyName THEN "No file selected."
    ELSE IF ~EndsWithCsv(q.filename) THEN "Invalid file type. Please upload a CSV file."
    ELSE ""

\* Lines 116-129 and 147-151: the request is turned away, or its upload is saved
\* at its path, over whatever is there.
UploadReceive(r) ==
    /\ upc[r] = "request"
    /\ IF Refusal(req[r]) # ""
       THEN /\ upc' = [upc EXCEPT ![r] = "done"]
            /\ IF req[r].method = "POST"
               THEN Flash(r, Refusal(req[r]))
               ELSE UNCHANGED flashes
            /\ UNCHANGED <<fs, saved>>
       ELSE /\ fs' = [fs EXCEPT ![file_path(r)] = [owner |-> r, file |-> req[r].body]]
            /\ saved' = [saved EXCEPT ![r] = TRUE]
            /\ upc' = [upc EXCEPT ![r] = "check"]
            /\ UNCHANGED flashes
    /\ UNCHANGED <<req, reads, outcome, deleted>>
    /\ UNCHANGED <<engineVars, contactVars>>

\* The message flashed for what the engine's call ended in (lines 133-136): a
\* None cannot be unpacked into three names, which raises a TypeError.
Reported(o) ==
    IF o.kind = "triple"
    THEN [message |-> "The highest similarity is between", user1 |-> o.user1,
          user2 |-> o.user2, similarity |-> o.max_similarity_value]
    ELSE IF o.kind = "none"
    THEN [message |-> "An error occurred while processing the file", error |-> "TypeError"]
    ELSE [message |-> "An error occurred while processing the file", error |-> o.error]

\* The removal placed inside the try statement of lines 132-136, after the flash
\* of the result: an exception of the engine's call skips it.
AfterProcessingInsideTry(o) == IF o.kind = "triple" THEN "remove" ELSE "done"

\* Where process_file goes on after lines 132-136, whatever the engine's call
\* ended in: the removal of lines 139-143 is outside that try statement.
AfterProcessing(o) == "remove"

\* Line 133, as far as the engine's first read of the file (lines 180-181).
UploadCheck(r) ==
    /\ upc[r] = "check"
    /\ reads' = [reads EXCEPT ![r] = @ \cup {fs[file_path(r)].file}]
    /\ IF check_csv_file_with_pandas(fs[file_path(r)].file)
       THEN /\ upc' = [upc EXCEPT ![r] = "pipeline"]
            /\ UNCHANGED <<outcome, flashes>>
       ELSE /\ outcome' = [outcome EXCEPT ![r] = ReturnsNone]
            /\ Flash(r, Reported(ReturnsNone))
            /\ upc' = [upc EXCEPT ![r] = AfterProcessing(ReturnsNone)]
    /\ UNCHANGED <<fs, req, saved, deleted>>
    /\ UNCHANGED <<engineVars, contactVars>>

\* Lines 133-136 from the engine's second read of the file (line 182) on.
UploadPipeline(r) ==
    /\ upc[r] = "pipeline"
    /\ reads' = [reads EXCEPT ![r] = @ \cup {fs[file_path(r)].file}]
    /\ LET o == RunPipeline(fs[file_path(r)].file)
       IN  /\ outcome' = [outcome EXCEPT ![r] = o]
           /\ Flash(r, Reported(o))
           /\ upc' = [upc EXCEPT ![r] = AfterProcessing(o)]
    /\ UNCHANGED <<fs, req, saved, deleted>>
    /\ UNCHANGED <<engineVars, contactVars>>

\* Lines 139-146: os.remove removes what is at the path, or raises when nothing
\* is there; then the handler returns.
UploadRemove(r) ==
    /\ upc[r] = "remove"
    /\ IF fs[file_path(r)] # NoEntry
       THEN /\ deleted' = [deleted EXCEPT ![r] = fs[file_path(r)]]
            /\ fs' = [fs EXCEPT ![file_path(r)] = NoEntry]
            /\ Flash(r, [message |-> "File deleted after processing."])
       ELSE /\ Flash(r, [message |-> "An error occurred while deleting the file",
                         error |-> "FileNotFoundError"])
            /\ UNCHANGED <<fs, deleted>>
    /\ upc' = [upc EXCEPT ![r] = "done"]
    /\ UNCHANGED <<req, saved, reads, outcome>>
    /\ UNCHANGED <<engineVars, contactVars>>

UploadNext ==
    \E r \in UploadRequests :
        \/ UploadReceive(r)
        \/ UploadCheck(r)
        \/ UploadPipeline(r)
        \/ UploadRemove(r)

\* ----------------------------------------------------- the contact handler
ContactRequests == {"c1", "c2"}

ContactRequest == [method : {"GET", "POST"}, valid : BOOLEAN]

\* What the token request of get_access_token ends in: a body with an
\* access_token, no connection, a body that is not JSON, or a JSON body without
\* the key access_token (the provider's error reply).
TokenOutcomes == {"access_token", "ConnectionError", "JSONDecodeError", "KeyError"}

NoResponse == [status |-> 0, flashed |-> ""]

ContactIdle ==
    /\ creq = <<>>
    /\ cpc = <<>>
    /\ mail_password = [from |-> "APP_PASSWORD"]
    /\ cmail = <<>>
    /\ cresp = <<>>

ContactStart ==
    /\ creq \in [ContactRequests -> ContactRequest]
    /\ cpc = [c \in ContactRequests |-> "request"]
    /\ mail_password = [from |-> "APP_PASSWORD"]
    /\ cmail = [c \in ContactRequests |-> "not sent"]
    /\ cresp = [c \in ContactRequests |-> NoResponse]

Respond(c, status, message) ==
    /\ cresp' = [cresp EXCEPT ![c] = [status |-> status, flashed |-> message]]
    /\ cpc' = [cpc EXCEPT ![c] = "done"]

\* Lines 61-70 and 95-96.
ContactValidate(c) ==
    /\ cpc[c] = "request"
    /\ IF creq[c].method = "GET"
       THEN Respond(c, 200, "")
       ELSE IF ~creq[c].valid
       THEN Respond(c, 200, "All fields are required.")
       ELSE cpc' = [cpc EXCEPT ![c] = "update_mail_password"] /\ UNCHANGED cresp
    /\ UNCHANGED <<creq, mail_password, cmail>>
    /\ UNCHANGED <<engineVars, uploadVars>>

\* get_access_token, lines 42-52: the token, or the exception it raises.
get_access_token(c, reply) ==
    IF reply = "access_token"
    THEN [ok |-> TRUE, token |-> [from |-> "access_token", request |-> c]]
    ELSE [ok |-> FALSE, error |-> reply]

\* Line 73: update_mail_password() is called outside any try statement, so what
\* get_access_token raises leaves the handler: the request is answered 500.
ContactUpdateMailPassword(c) ==
    /\ cpc[c] = "update_mail_password"
    /\ \E reply \in TokenOutcomes :
          LET t == get_access_token(c, reply)
          IN  IF t.ok
              THEN /\ mail_password' = t.token
                   /\ cpc' = [cpc EXCEPT ![c] = "send"]
                   /\ UNCHANGED cresp
              ELSE /\ Respond(c, 500, t.error)
                   /\ UNCHANGED mail_password
    /\ UNCHANGED <<creq, cmail>>
    /\ UNCHANGED <<engineVars, uploadVars>>

\* Lines 76-93: the mail is sent (or its sending suppressed) or mail.send raises;
\* either way the page is rendered.
ContactSend(c) ==
    /\ cpc[c] = "send"
    /\ \E sent \in BOOLEAN :
          /\ cmail' = [cmail EXCEPT ![c] = IF sent THEN "sent" ELSE "failed"]
          /\ Respond(c, 200, IF sent THEN "Your message has been sent successfully!"
                                     ELSE "Failed to send the message. Try again later.")
    /\ UNCHANGED <<creq, mail_password>>
    /\ UNCHANGED <<engineVars, uploadVars>>

ContactNext ==
    \E c \in ContactRequests :
        \/ ContactValidate(c)
        \/ ContactUpdateMailPassword(c)
        \/ ContactSend(c)

\* ------------------------------------------------------- the specifications
EngineInit == EngineStart /\ UploadIdle /\ ContactIdle
UploadInit == EngineIdle /\ UploadStart /\ ContactIdle
ContactInit == EngineIdle /\ UploadIdle /\ ContactStart

SpecEngine == EngineInit /\ [][EngineNext]_vars
SpecUpload == UploadInit /\ [][UploadNext]_vars
SpecContact == ContactInit /\ [][ContactNext]_vars

\* ------------------------------------------------- properties of the engine
Done == pc = "done"
ReturnedTriple == Done /\ result.kind = "triple"

\* Every cell of every data row is present and every time is a valid HH:MM:SS.
WellFormed(f) ==
    /\ f.kind = "csv"
    /\ f.cols = 2
    /\ Len(f.rows) >= 1
    /\ \A i \in 1..Len(f.rows) :
          f.rows[i].user # NA /\ f.rows[i].time # NA /\ MatchesFormat(f.rows[i].time)

\* A file as process_csv documents its input: well-formed, under a header line.
Documented(f) == WellFormed(f) /\ f.has_header

\* The place of user u in df_time_vectors.
IndexOf(u) == CHOOSE k \in 1..Len(vectors) : vectors[k].Users = u

\* The cells strictly above the diagonal of an n x n matrix.
Upper(n) == {c \in (1..n) \X (1..n) : c[1] < c[2]}

\* c comes before d in row-major order.
RowMajorBefore(c, d) == c[1] < d[1] \/ (c[1] = d[1] /\ c[2] < d[2])

\* C1: over two or more users, highest_similarity_pair never returns a diagonal
\* cell: the two users of the returned pair differ.
C1_PairIsOffDiagonal ==
    (ReturnedTriple /\ Documented(csv_path) /\ Len(vectors) >= 2) =>
        result.user1 # result.user2

\* C2: over two or more users, the returned cell is a cell above the diagonal
\* that holds the largest value of all such cells, it is the first such cell in
\* row-major order, and the returned score is the matrix value of that cell.
C2_FirstLargestAboveDiagonal ==
    (ReturnedTriple /\ Documented(csv_path) /\ Len(vectors) >= 2) =>
        LET c == <<IndexOf(result.user1), IndexOf(result.user2)>>
        IN  /\ c \in Upper(Len(vectors))
            /\ \A d \in Upper(Len(vectors)) :
                  /\ ~Less(matrix[c[1]][c[2]], matrix[d[1]][d[2]])
                  /\ RowMajorBefore(d, c) => Less(matrix[d[1]][d[2]], matrix[c[1]][c[2]])
            /\ Same(result.max_similarity_value, matrix[c[1]][c[2]])

\* C3: with fewer than two distinct users after aggregation the pipeline ends in
\* a failure and returns no triple.
C3_FewerThanTwoUsersFails ==
    (Done /\ Documented(csv_path) /\ "groupby" \in ran /\ Len(vectors) < 2) =>
        result.kind = "raise"

\* The file is absent or pandas cannot read it.
Unreadable(f) == f.kind # "csv" \/ PhysicalLines(f) = 0

\* C4 as claimed: a file that is absent, unreadable or not of two columns ends
\* in a raised failure, never in a printed message and a return without result,
\* and no step after the check has run.
C4_BadFileRaises ==
    (Done /\ (Unreadable(csv_path) \/ csv_path.cols # 2)) =>
        /\ result.kind = "raise"
        /\ ~printed
        /\ ran = {"check_csv_file_with_pandas"}

\* C4 as amended: a file that is absent or that pandas cannot read makes the
\* call print its message and return without a result (None); nothing is
\* raised and no step after the check has run.
C4_BadFilePrintsAndReturnsNone ==
    (Done /\ Unreadable(csv_path)) =>
        /\ result = ReturnsNone
        /\ printed
        /\ ran = {"check_csv_file_with_pandas"}

C4_Witness ==
    Done /\ csv_path.kind = "absent" /\ printed /\ result = ReturnsNone

\* A time cell that is not a valid HH:MM:SS (an empty cell included).
Malformed(t) == t = NA \/ ~MatchesFormat(t)

\* C5: a two-column csv under a header line with a time cell that is not a valid
\* HH:MM:SS ends in a failure: no triple computed from the remaining rows is
\* returned.
C5_MalformedTimeFails ==
    (/\ Done
     /\ ReadsAsCsv(csv_path)
     /\ csv_path.cols = 2
     /\ csv_path.has_header
     /\ \E i \in 1..Len(csv_path.rows) : Malformed(csv_path.rows[i].time)) =>
        result.kind = "raise"

\* The aggregated embedding of the user at place k is the zero vector.
ZeroVector(k) == vectors[k].Time_sin = <<0>> /\ vectors[k].Time_cos = <<0>>

\* C8: no returned pair contains a user whose aggregated embedding is the zero
\* vector (the pipeline fails, or leaves the pairs of such a user out).
C8_NoZeroVectorUserInPair ==
    (ReturnedTriple /\ Documented(csv_path)) =>
        /\ ~ZeroVector(IndexOf(result.user1))
        /\ ~ZeroVector(IndexOf(result.user2))

\* The data rows of user u, by their place in the file.
RowsOfUser(f, u) == {i \in 1..Len(f.rows) : f.rows[i].user = <<u>>}

SinOf(t) == Time_sin(Seconds_from_midnight(t))
CosOf(t) == Time_cos(Seconds_from_midnight(t))

\* The sums of the sines and of the cosines of the rows I of file f.
RECURSIVE SumSin(_, _)
SumSin(I, f) ==
    IF I = {} THEN 0
    ELSE LET i == CHOOSE x \in I : TRUE
         IN  SinOf(f.rows[i].time) + SumSin(I \ {i}, f)

RECURSIVE SumCos(_, _)
SumCos(I, f) ==
    IF I = {} THEN 0
    ELSE LET i == CHOOSE x \in I : TRUE
         IN  CosOf(f.rows[i].time) + SumCos(I \ {i}, f)

\* df_time_vectors holds one profile for each user of the file's data rows and no
\* other, and each profile is the mean of the embeddings of all the data rows of
\* its user.
ProfilesOfAllRows(f) ==
    LET users == {f.rows[i].user[1] : i \in 1..Len(f.rows)}
    IN  /\ Len(vectors) = Cardinality(users)
        /\ \A u \in users :
              \E k \in 1..Len(vectors) :
                 /\ vectors[k].Users = u
                 /\ vectors[k].Time_sin # NA
                 /\ vectors[k].Time_cos # NA
                 /\ vectors[k].Time_sin[1] * Cardinality(RowsOfUser(f, u))
                       = SumSin(RowsOfUser(f, u), f)
                 /\ vectors[k].Time_cos[1] * Cardinality(RowsOfUser(f, u))
                       = SumCos(RowsOfUser(f, u), f)

\* C9 as claimed: for a well-formed file, with or without a header line, the
\* aggregation gives one profile per user of the data rows, the mean of all of
\* that user's rows.
C9_ProfilesWithOrWithoutHeader ==
    ("groupby" \in ran /\ WellFormed(csv_path)) => ProfilesOfAllRows(csv_path)

\* C9 as amended: the same for a well-formed file that has a header line.
C9_ProfilesWithHeader ==
    ("groupby" \in ran /\ WellFormed(csv_path) /\ csv_path.has_header) =>
        ProfilesOfAllRows(csv_path)

C9_Witness ==
    /\ "groupby" \in ran
    /\ WellFormed(csv_path)
    /\ csv_path.has_header
    /\ Len(vectors) = 2
    /\ \E u \in UserIds : Cardinality(RowsOfUser(csv_path, u)) = 2
    /\ \E k \in 1..2 : vectors[k].Time_sin[1] \notin {-Unit, 0, Unit}

\* --------------------------------------------- properties of the handlers
\* Request r has returned from process_file after saving its upload.
ServedUpload(r) == upc[r] = "done" /\ saved[r]

\* C6: when a request that saved its upload returns, its os.remove has been
\* attempted and the upload it saved is no longer in the upload folder, whatever
\* the engine's call ended in.
C6_UploadRemovedOnEveryPath ==
    \A r \in UploadRequests :
        ServedUpload(r) =>
            /\ Len(flashes[r]) = 2
            /\ flashes[r][2].message \in {"File deleted after processing.",
                                          "An error occurred while deleting the file"}
            /\ fs[file_path(r)].owner # r

\* The engine's call of one request returned a triple, that of the other did
\* not, and both uploads are gone.
C6_Witness ==
    /\ \A r \in UploadRequests : ServedUpload(r)
    /\ outcome["r1"].kind = "triple"
    /\ outcome["r2"].kind \in {"none", "raise"}
    /\ \A n \in DOMAIN fs : fs[n] = NoEntry

\* C7: under every interleaving of two uploads, same file name or not, the
\* engine's call of each request reads only the contents that request saved, the
\* request reports what the engine returns on those contents, and what the
\* request removes is its own upload.
C7_RequestsAreIndependent ==
    \A r \in UploadRequests :
        ServedUpload(r) =>
            /\ reads[r] = {req[r].body}
            /\ flashes[r][1] = Reported(compute_highest_similarity_from_csv(req[r].body))
            /\ deleted[r].file = req[r].body

\* C10: a POST to /contact with a valid form whose mail does not fail to be sent
\* is answered 200 with the success message, whatever the token request ended
\* in.
C10_ValidPostIsAnswered200 ==
    \A c \in ContactRequests :
        (/\ cpc[c] = "done"
         /\ creq[c].method = "POST"
         /\ creq[c].valid
         /\ cmail[c] # "failed") =>
            /\ cresp[c].status = 200
            /\ cresp[c].flashed = "Your message has been sent successfully!"
====
